---- MODULE Spec2Model ----
(***************************************************************************)
(* A model of server.js: the POST /upload handler (zip extraction with the *)
(* zip-slip check, the index.html search, the response), GET /recent and   *)
(* the hourly cleanup timer, over an explicit file system.                 *)
(*                                                                         *)
(* A path string is a sequence of tokens: the one-character tokens ".",    *)
(* "/" and "\\", and name tokens ("a", "sub", "index.html", ...) that      *)
(* stand for runs of characters holding no separator and no "..".          *)
(* A file-system path is a sequence of segments from "/", each segment a   *)
(* sequence of tokens.  Paths follow the POSIX rules of Node's path module.*)
(***************************************************************************)
EXTENDS Integers, Sequences, FiniteSets

VARIABLES
  fs,       \* the disk: path -> "Directory" | "File", for every existing node
  mtime,    \* mtimeMs of each upload's root directory (0 when it does not exist)
  now,      \* Date.now()
  pc,       \* each POST /upload request: "idle", "extracting", "hung", "done"
  nread,    \* entries the zip parser has emitted so far, per request
  rejected, \* how many of them the zip-slip check drained and skipped
  pending,  \* write streams created by entry.pipe(...) whose open has not run yet
  resp,     \* the HTTP response each request received (NoResp: none yet)
  created,  \* the time at which each upload's id and root directory were made
  thrown,   \* the error that escaped the entry handler of a request, if any
  wrote,    \* per request: every path its extraction created or opened for writing
  recent,   \* the body of the GET /recent response being sent (<<>> at any other event)
  crashed   \* the process died of an uncaught exception

vars == <<fs, mtime, now, pc, nread, rejected, pending, resp, created, thrown, wrote, recent, crashed>>

\* ---------------------------------------------------------------- bounds
\* entries in an archive of the one-request specifications
MaxEntries == 3
\* entries in an archive of the two-request specification
MaxParsed == 1
\* tokens in an entry path of the path-check specification
MaxPathLen == 3
\* milliseconds the clock runs from 0 and from MAX_AGE_MS
MaxExtraTime == 1

Uploads == {"u1", "u2"}

\* ---------------------------------------------------------------- constants of server.js
MAX_AGE_MS == 24 * 60 * 60 * 1000
RECENT_LIMIT == 50
SRV == << <<"srv">> >>
UPLOAD_DIR == Append(SRV, <<"uploads">>)
outDir(u) == Append(UPLOAD_DIR, <<u>>)

\* ---------------------------------------------------------------- sequences
Front(s) == SubSeq(s, 1, Len(s) - 1)
Last(s) == s[Len(s)]
IsPrefix(p, q) == Len(p) <= Len(q) /\ SubSeq(q, 1, Len(p)) = p
StrictlyBeneath(q, p) == Len(p) < Len(q) /\ SubSeq(q, 1, Len(p)) = p
SeqsUpTo(S, n) == UNION {[1..k -> S] : k \in 0..n}

\* ---------------------------------------------------------------- path module (POSIX)
\* entry.path.replace(/\\/g, '/')
ReplaceBackslash(s) == [i \in 1..Len(s) |-> IF s[i] = "\\" THEN "/" ELSE s[i]]

\* entryPath.includes('..'): a substring test on characters
IncludesDotDot(s) == \E i \in 1..(Len(s) - 1) : s[i] = "." /\ s[i + 1] = "."

\* path.isAbsolute(entryPath)
IsAbsolute(s) == Len(s) > 0 /\ s[1] = "/"

RECURSIVE SplitFrom(_, _, _)
SplitFrom(s, i, cur) ==
  IF i > Len(s) THEN <<cur>>
  ELSE IF s[i] = "/" THEN <<cur>> \o SplitFrom(s, i + 1, <<>>)
  ELSE SplitFrom(s, i + 1, Append(cur, s[i]))

\* the segments of a path string between its "/" separators
Split(s) == SplitFrom(s, 1, <<>>)

\* path.normalize on the segments of an absolute path: "" and "." are dropped,
\* ".." removes the segment before it and is dropped at the root
RECURSIVE NormalizeFrom(_, _, _)
NormalizeFrom(segs, i, res) ==
  IF i > Len(segs) THEN res
  ELSE IF segs[i] = <<>> \/ segs[i] = <<".">> THEN NormalizeFrom(segs, i + 1, res)
  ELSE IF segs[i] = <<".", ".">>
    THEN NormalizeFrom(segs, i + 1, IF Len(res) > 0 THEN Front(res) ELSE res)
  ELSE NormalizeFrom(segs, i + 1, Append(res, segs[i]))

\* path.join(dir, entryPath): the normalized segments, and whether the result
\* keeps a trailing "/"
Join(dir, s) ==
  [segs |-> NormalizeFrom(dir \o (IF Len(s) = 0 THEN <<>> ELSE Split(s)), 1, <<>>),
   trailing |-> Len(s) > 0 /\ s[Len(s)] = "/"]

\* path.dirname(destPath)
Dirname(dest) == IF Len(dest.segs) = 0 THEN <<>> ELSE Front(dest.segs)

\* the name as it is, compared with case
KeepCase(name) == name

\* f.name.toLowerCase()
ToLowerCase(name) == [i \in 1..Len(name) |-> IF name[i] = "INDEX.HTML" THEN "index.html" ELSE name[i]]

\* ---------------------------------------------------------------- fs module
Exists(f, p) == p \in DOMAIN f
IsDir(f, p) == p \in DOMAIN f /\ f[p] = "Directory"
IsFile(f, p) == p \in DOMAIN f /\ f[p] = "File"
Prefixes(p) == {SubSeq(p, 1, k) : k \in 0..Len(p)}

\* fs.mkdirSync(p, {recursive: true}) throws when a component of p is a file
MkdirFails(f, p) == \E q \in Prefixes(p) : IsFile(f, q)
\* the directories it makes otherwise
MkdirMade(f, p) == {q \in Prefixes(p) : ~Exists(f, q)}
Mkdir(f, p) == [q \in DOMAIN f \cup MkdirMade(f, p) |-> IF q \in DOMAIN f THEN f[q] ELSE "Directory"]

\* the open(2) of fs.createWriteStream(destPath), flags 'w'
OpenFails(f, dest) ==
  \/ dest.trailing
  \/ Len(dest.segs) = 0
  \/ ~IsDir(f, Dirname(dest))
  \/ IsDir(f, dest.segs)
OpenFile(f, dest) == [q \in DOMAIN f \cup {dest.segs} |-> IF q = dest.segs THEN "File" ELSE f[q]]

\* the removal without its recursive option: only an empty directory goes
RmdirOnly(f, p) == [q \in {r \in DOMAIN f : r # p \/ \E c \in DOMAIN f : StrictlyBeneath(c, p)} |-> f[q]]

\* fs.rmSync(p, {recursive: true, force: true})
RmSync(f, p) == [q \in {r \in DOMAIN f : ~IsPrefix(p, r)} |-> f[q]]

\* the options of rmSync without force
RmOptionsUnforced == [recursive |-> TRUE, force |-> FALSE]
\* the options both calls of rmSync pass
RmOptions == [recursive |-> TRUE, force |-> TRUE]
\* whether rmSync(p, options) throws: ENOENT on a missing path unless force is
\* set, EISDIR on a directory unless recursive is set
RmSyncThrows(f, p, options) ==
  \/ ~options.force /\ ~Exists(f, p)
  \/ ~options.recursive /\ IsDir(f, p)

\* fs.readdirSync(dir): the names in dir, as full paths, in no particular order
Children(f, dir) == {q \in DOMAIN f : Len(q) = Len(dir) + 1 /\ Front(q) = dir}

\* a directory's mtime changes when an entry is made or removed directly in it
Touched(v, paths) == \E q \in paths : q = outDir(v) \/ (Len(q) = Len(outDir(v)) + 1 /\ Front(q) = outDir(v))
Touch(mt, paths, t) == [v \in Uploads |-> IF Touched(v, paths) THEN t ELSE mt[v]]

\* ---------------------------------------------------------------- walk (the index.html search)
null == << <<"null">> >>

RECURSIVE Perms(_)
\* every order in which readdirSync may enumerate a set of names
Perms(S) == IF S = {} THEN {<<>>} ELSE UNION {{<<x>> \o p : p \in Perms(S \ {x})} : x \in S}

RECURSIVE walk(_, _)
RECURSIVE walkLoop(_, _, _)
\* the for loop of walk from its i-th name on: the values it may return
walkLoop(f, files, i) ==
  IF i > Len(files) THEN {null}
  ELSE IF IsFile(f, files[i]) /\ ToLowerCase(Last(files[i])) = <<"index.html">> THEN {files[i]}
  ELSE IF IsDir(f, files[i])
    THEN LET found == walk(f, files[i])
         IN  (found \ {null}) \cup (IF null \in found THEN walkLoop(f, files, i + 1) ELSE {})
  ELSE walkLoop(f, files, i + 1)

\* walk(dir): the values it may return, over the enumeration orders of readdirSync
walk(f, dir) == UNION {walkLoop(f, files, 1) : files \in Perms(Children(f, dir))}

\* ---------------------------------------------------------------- responses
MsgNoFile == "No file uploaded"
MsgNoIndex == "ZIP must include an index.html file"
MsgOnlyZip == "Only ZIP files are allowed"
\* err.message of the errors that reach the catch block
MsgStream == "invalid signature: 0x74786574"
MsgScandir == "ENOENT: no such file or directory, scandir '/srv/uploads/<id>'"

NoResp == [status |-> 0, json |-> FALSE, error |-> "", id |-> "", playUrl |-> <<>>]
ErrorJson(code, msg) == [status |-> code, json |-> TRUE, error |-> msg, id |-> "", playUrl |-> <<>>]
\* Express's default error handler answers an error passed to next(): 500, an HTML page
ErrorPage(msg) == [status |-> 500, json |-> FALSE, error |-> msg, id |-> "", playUrl |-> <<>>]

\* path.relative(outDir, foundIndex).split(path.sep).join('/')
relIndex(u, foundIndex) == SubSeq(foundIndex, Len(outDir(u)) + 1, Len(foundIndex))
\* the URL of GET /recent, which takes index.html to be at the root
playUrlAtRoot(u, foundIndex) == << <<"play">>, <<u>>, <<"index.html">> >>

\* `/play/${id}/${relIndex}`
playUrl(u, foundIndex) == << <<"play">>, <<u>> >> \o relIndex(u, foundIndex)
Success(u, foundIndex) ==
  [status |-> 200, json |-> TRUE, error |-> "", id |-> u, playUrl |-> playUrl(u, foundIndex)]

\* ---------------------------------------------------------------- inputs
\* an uploaded multipart field: the extension of originalname and the declared MIME type
Exts == {".zip", ".ZIP", ".txt"}
MimeTypes == {"application/zip", "application/x-zip-compressed", "text/plain"}
UploadedFiles == [present : BOOLEAN, ext : Exts, mimetype : MimeTypes]
\* path.extname(file.originalname).toLowerCase()
LowerExt(x) == IF x = ".ZIP" THEN ".zip" ELSE x
fileFilter(file) ==
  \/ LowerExt(file.ext) = ".zip"
  \/ file.mimetype = "application/zip"
  \/ file.mimetype = "application/x-zip-compressed"

\* unzipper gives type 'Directory' only to an entry whose path ends in a separator
EndsInSeparator(s) == Len(s) > 0 /\ s[Len(s)] \in {"/", "\\"}
EntriesOf(paths) ==
  {[path |-> s, type |-> "File"] : s \in paths}
    \cup {[path |-> s, type |-> "Directory"] : s \in {t \in paths : EndsInSeparator(t)}}

\* the entries of the archives of the main specification
ArchivePaths ==
  { <<"index.html">>,
    <<"sub", "/", "INDEX.HTML">>,
    <<"sub">>,
    <<"sub", "/">>,
    <<".">>,
    <<".", ".", "/", "index.html">>,
    <<".", ".", "\\", "index.html">>,
    <<"/", "index.html">> }
ArchiveEntries == EntriesOf(ArchivePaths)

\* the entries of the archives of the search specification: a directory named
\* index.html, with and without an index file in it, and an index file two
\* directories down
WalkPaths ==
  { <<"index.html">>,
    <<"a">>,
    <<"index.html", "/", "a">>,
    <<"index.html", "/", "INDEX.HTML">>,
    <<"sub", "/", "a", "/", "index.html">> }
WalkEntries == EntriesOf(WalkPaths)

\* every path of at most MaxPathLen characters, for the path-check specification
PathTokens == {"a", ".", "/", "\\"}
PathEntries == EntriesOf(SeqsUpTo(PathTokens, MaxPathLen))

\* ---------------------------------------------------------------- state
Init ==
  /\ fs = [p \in {<<>>, SRV, UPLOAD_DIR} |-> "Directory"]
  /\ mtime = [u \in Uploads |-> 0]
  /\ now = 0
  /\ pc = [u \in Uploads |-> "idle"]
  /\ nread = [u \in Uploads |-> 0]
  /\ rejected = [u \in Uploads |-> 0]
  /\ pending = [u \in Uploads |-> {}]
  /\ resp = [u \in Uploads |-> NoResp]
  /\ created = [u \in Uploads |-> 0]
  /\ thrown = [u \in Uploads |-> "none"]
  /\ wrote = [u \in Uploads |-> {}]
  /\ recent = <<>>
  /\ crashed = FALSE

\* ---------------------------------------------------------------- POST /upload
\* requests are numbered in their order of arrival
Arrival == <<"u1", "u2">>
IsNextRequest(u) == \A k \in 1..Len(Arrival) : Arrival[k] = u => \A j \in 1..(k - 1) : pc[Arrival[j]] # "idle"

\* the request arrives: multer's fileFilter, then the handler up to the await
Post(u, file) ==
  /\ ~crashed
  /\ pc[u] = "idle"
  /\ IsNextRequest(u)
  /\ IF file.present /\ ~fileFilter(file)
       THEN /\ resp' = [resp EXCEPT ![u] = ErrorPage(MsgOnlyZip)]
            /\ pc' = [pc EXCEPT ![u] = "done"]
            /\ UNCHANGED <<fs, mtime, created, wrote>>
     ELSE IF ~file.present
       THEN /\ resp' = [resp EXCEPT ![u] = ErrorJson(400, MsgNoFile)]
            /\ pc' = [pc EXCEPT ![u] = "done"]
            /\ UNCHANGED <<fs, mtime, created, wrote>>
     ELSE /\ fs' = Mkdir(fs, outDir(u))
          /\ mtime' = Touch(mtime, MkdirMade(fs, outDir(u)), now)
          /\ created' = [created EXCEPT ![u] = now]
          /\ pc' = [pc EXCEPT ![u] = "extracting"]
          /\ UNCHANGED <<resp, wrote>>
  /\ UNCHANGED <<now, nread, rejected, pending, thrown, crashed>>
  /\ recent' = <<>>

\* the zip-slip check of the entry handler
Rejected(entryPath) == IncludesDotDot(entryPath) \/ IsAbsolute(entryPath)

\* a rejected entry that ends the extraction: reject(new Error(...)) into the catch block
SkipEntryAborts(u) ==
  /\ rejected' = [rejected EXCEPT ![u] = @ + 1]
  /\ pc' = [pc EXCEPT ![u] = "done"]
  /\ resp' = [resp EXCEPT ![u] = ErrorJson(500, MsgStream)]
  /\ UNCHANGED <<fs, mtime, pending, thrown, wrote, crashed>>

\* entry.autodrain(); return: the entry is consumed and nothing else happens
SkipEntry(u) ==
  /\ rejected' = [rejected EXCEPT ![u] = @ + 1]
  /\ UNCHANGED <<fs, mtime, pc, pending, resp, thrown, wrote, crashed>>

\* mkdirSync throws inside the async handler: an unhandled rejection.  It ends the
\* process (Node >= 15), or it is only warned about and the entry is never
\* consumed: the parser stalls on a large entry ("hang") and buffers a small one
\* and goes on ("skip").
MkdirThrows(u) ==
  \E outcome \in {"crash", "hang", "skip"} :
    /\ thrown' = [thrown EXCEPT ![u] = "mkdir"]
    /\ crashed' = (outcome = "crash")
    /\ pc' = [pc EXCEPT ![u] = IF outcome = "hang" THEN "hung" ELSE @]
    /\ UNCHANGED <<fs, mtime, rejected, pending, resp, wrote>>

\* the accepted entry: mkdirSync(destDir), then autodrain (a directory) or pipe
\* into a new write stream (a file)
ExtractEntry(u, entry, destPath) ==
  /\ fs' = Mkdir(fs, Dirname(destPath))
  /\ mtime' = Touch(mtime, MkdirMade(fs, Dirname(destPath)), now)
  /\ wrote' = [wrote EXCEPT ![u] = @ \cup MkdirMade(fs, Dirname(destPath))]
  /\ pending' = [pending EXCEPT ![u] = IF entry.type = "Directory" THEN @ ELSE @ \cup {destPath}]
  /\ UNCHANGED <<rejected, pc, resp, thrown, crashed>>

\* stream.on('entry'): the handler runs to its end within the event; the archive
\* holds at most `limit` entries
OnEntry(u, entry, limit) ==
  /\ ~crashed
  /\ pc[u] = "extracting"
  /\ nread[u] < limit
  /\ nread' = [nread EXCEPT ![u] = @ + 1]
  /\ LET entryPath == ReplaceBackslash(entry.path)
         destPath == Join(outDir(u), entryPath)
     IN  IF Rejected(entryPath) THEN SkipEntry(u)
         ELSE IF MkdirFails(fs, Dirname(destPath)) THEN MkdirThrows(u)
         ELSE ExtractEntry(u, entry, destPath)
  /\ UNCHANGED <<now, created>>
  /\ recent' = <<>>

\* the open of a write stream made by entry.pipe(fs.createWriteStream(destPath));
\* a failed open is an 'error' event nobody listens to: an uncaught exception
WriteOpen(u) ==
  /\ ~crashed
  /\ \E destPath \in pending[u] :
       /\ pending' = [pending EXCEPT ![u] = @ \ {destPath}]
       /\ IF OpenFails(fs, destPath)
            THEN /\ crashed' = TRUE
                 /\ thrown' = [thrown EXCEPT ![u] = "open"]
                 /\ UNCHANGED <<fs, mtime, wrote>>
          ELSE /\ fs' = OpenFile(fs, destPath)
               /\ mtime' = Touch(mtime, {destPath.segs} \ DOMAIN fs, now)
               /\ wrote' = [wrote EXCEPT ![u] = @ \cup {destPath.segs}]
               /\ UNCHANGED <<crashed, thrown>>
  /\ UNCHANGED <<now, pc, nread, rejected, resp, created>>
  /\ recent' = <<>>

\* stream.on('close', resolve): the handler resumes after the await and runs to
\* its response (readdirSync of a missing outDir throws into the catch block)
OnClose(u) ==
  /\ ~crashed
  /\ pc[u] = "extracting"
  /\ pc' = [pc EXCEPT ![u] = "done"]
  /\ IF ~IsDir(fs, outDir(u))
       THEN /\ resp' = [resp EXCEPT ![u] = ErrorJson(500, MsgScandir)]
            /\ UNCHANGED <<fs, mtime>>
     ELSE \E foundIndex \in walk(fs, outDir(u)) :
            IF foundIndex = null
              THEN /\ fs' = RmSync(fs, outDir(u))
                   /\ mtime' = [mtime EXCEPT ![u] = 0]
                   /\ resp' = [resp EXCEPT ![u] = ErrorJson(400, MsgNoIndex)]
            ELSE /\ resp' = [resp EXCEPT ![u] = Success(u, foundIndex)]
                 /\ UNCHANGED <<fs, mtime>>
  /\ UNCHANGED <<now, nread, rejected, pending, created, thrown, wrote, crashed>>
  /\ recent' = <<>>

\* stream.on('error', reject): the catch block answers
OnError(u) ==
  /\ ~crashed
  /\ pc[u] = "extracting"
  /\ pc' = [pc EXCEPT ![u] = "done"]
  /\ resp' = [resp EXCEPT ![u] = ErrorJson(500, MsgStream)]
  /\ UNCHANGED <<fs, mtime, now, nread, rejected, pending, created, thrown, wrote, crashed>>
  /\ recent' = <<>>

\* ---------------------------------------------------------------- GET /recent
\* fs.statSync(p).mtimeMs
MtimeOf(mt, p) == IF \E v \in Uploads : p = outDir(v) THEN mt[CHOOSE v \in Uploads : p = outDir(v)] ELSE 0

Item(mt, p) == [id |-> Last(p), mtime |-> MtimeOf(mt, p), url |-> << <<"play">>, Last(p), <<"index.html">> >>]

\* Array.prototype.sort((a, b) => b.mtime - a.mtime): stable, newest mtime first
CountBefore(s, x) == Cardinality({k \in 1..Len(s) : s[k].mtime >= x.mtime})
InsertSorted(s, x) == SubSeq(s, 1, CountBefore(s, x)) \o <<x>> \o SubSeq(s, CountBefore(s, x) + 1, Len(s))
RECURSIVE SortFrom(_, _, _)
SortFrom(items, i, sorted) ==
  IF i > Len(items) THEN sorted ELSE SortFrom(items, i + 1, InsertSorted(sorted, items[i]))
SortByMtime(items) == SortFrom(items, 1, <<>>)

\* .slice(0, 50)
Slice(s, n) == SubSeq(s, 1, IF Len(s) < n THEN Len(s) ELSE n)

RecentItems(names) == Slice(SortByMtime([k \in 1..Len(names) |-> Item(mtime, names[k])]), RECENT_LIMIT)

GetRecent ==
  /\ ~crashed
  /\ \E names \in Perms(Children(fs, UPLOAD_DIR)) : recent' = RecentItems(names)
  /\ UNCHANGED <<fs, mtime, now, pc, nread, rejected, pending, resp, created, thrown, wrote, crashed>>

\* ---------------------------------------------------------------- the cleanup timer
\* the age test with the operands of its subtraction swapped
ExpiredSwapped(mt, p, t) == MtimeOf(mt, p) - t > MAX_AGE_MS

\* now - st.mtimeMs > MAX_AGE_MS
Expired(mt, p, t) == t - MtimeOf(mt, p) > MAX_AGE_MS

RECURSIVE SweepFrom(_, _, _, _)
\* the for loop of the timer callback from its i-th name on; a statSync that
\* throws ends the loop in the catch block
SweepFrom(f, mt, names, i) ==
  IF i > Len(names) THEN [fs |-> f, mtime |-> mt]
  ELSE IF ~Exists(f, names[i]) THEN [fs |-> f, mtime |-> mt]
  ELSE IF Expired(mt, names[i], now)
    THEN SweepFrom(RmSync(f, names[i]),
                   [v \in Uploads |-> IF names[i] = outDir(v) THEN 0 ELSE mt[v]],
                   names, i + 1)
  ELSE SweepFrom(f, mt, names, i + 1)

Sweep ==
  /\ ~crashed
  /\ \E names \in Perms(Children(fs, UPLOAD_DIR)) :
       /\ fs' = SweepFrom(fs, mtime, names, 1).fs
       /\ mtime' = SweepFrom(fs, mtime, names, 1).mtime
  /\ UNCHANGED <<now, pc, nread, rejected, pending, resp, created, thrown, wrote, crashed>>
  /\ recent' = <<>>

RECURSIVE SweepFailingFrom(_, _, _, _, _)
\* the same loop when statSync or rmSync throws on the names of `failing`
\* (EACCES, EPERM, EBUSY: the force option only silences a missing path): the
\* one try block around the loop catches the error, and the loop is over
SweepFailingFrom(f, mt, names, i, failing) ==
  IF i > Len(names) THEN [fs |-> f, mtime |-> mt]
  ELSE IF names[i] \in failing \/ ~Exists(f, names[i]) THEN [fs |-> f, mtime |-> mt]
  ELSE IF Expired(mt, names[i], now)
    THEN SweepFailingFrom(RmSync(f, names[i]),
                          [v \in Uploads |-> IF names[i] = outDir(v) THEN 0 ELSE mt[v]],
                          names, i + 1, failing)
  ELSE SweepFailingFrom(f, mt, names, i + 1, failing)

\* one run of the timer callback over `names`, the disk failing on `failing`
SweepFailingOn(names, failing) ==
  /\ ~crashed
  /\ fs' = SweepFailingFrom(fs, mtime, names, 1, failing).fs
  /\ mtime' = SweepFailingFrom(fs, mtime, names, 1, failing).mtime
  /\ UNCHANGED <<now, pc, nread, rejected, pending, resp, created, thrown, wrote, crashed>>
  /\ recent' = <<>>

SweepFailing ==
  \E names \in Perms(Children(fs, UPLOAD_DIR)) :
    \E failing \in (SUBSET Children(fs, UPLOAD_DIR)) \ {{}} : SweepFailingOn(names, failing)

\* time passes: the clock is followed for MaxExtraTime milliseconds from the start
\* and from MAX_AGE_MS on
Tick(d) ==
  /\ ~crashed
  /\ now + d <= MAX_AGE_MS + MaxExtraTime
  /\ (now + d) % MAX_AGE_MS <= MaxExtraTime
  /\ now' = now + d
  /\ UNCHANGED <<fs, mtime, pc, nread, rejected, pending, resp, created, thrown, wrote, crashed>>
  /\ recent' = <<>>

\* ---------------------------------------------------------------- specifications
\* the server: two requests, the clock, the cleanup timer and GET /recent
ServerEntries == EntriesOf({ <<"sub", "/", "INDEX.HTML">> })

Next ==
  \/ \E u \in Uploads, file \in UploadedFiles : Post(u, file)
  \/ \E u \in Uploads, entry \in ServerEntries : OnEntry(u, entry, MaxParsed)
  \/ \E u \in Uploads : WriteOpen(u)
  \/ \E u \in Uploads : OnClose(u)
  \/ \E u \in Uploads : OnError(u)
  \/ GetRecent
  \/ Sweep
  \/ \E d \in {1, MAX_AGE_MS} : Tick(d)

Spec == Init /\ [][Next]_vars

\* one request, its archive built from the entries of ArchiveEntries
NextArchive ==
  \/ \E file \in UploadedFiles : Post("u1", file)
  \/ \E entry \in ArchiveEntries : OnEntry("u1", entry, MaxEntries)
  \/ WriteOpen("u1")
  \/ OnClose("u1")
  \/ OnError("u1")

SpecArchive == Init /\ [][NextArchive]_vars

\* one request, its archive built from every path of at most MaxPathLen characters
NextPath ==
  \/ \E file \in UploadedFiles : Post("u1", file)
  \/ \E entry \in PathEntries : OnEntry("u1", entry, MaxEntries)
  \/ WriteOpen("u1")
  \/ OnClose("u1")
  \/ OnError("u1")

SpecPath == Init /\ [][NextPath]_vars

\* one request, its archive built from the entries of WalkEntries
NextWalk ==
  \/ \E file \in UploadedFiles : Post("u1", file)
  \/ \E entry \in WalkEntries : OnEntry("u1", entry, MaxEntries)
  \/ WriteOpen("u1")
  \/ OnClose("u1")
  \/ OnError("u1")

SpecWalk == Init /\ [][NextWalk]_vars

\* the server on a disk that can fail under the cleanup timer
NextSweep ==
  \/ \E u \in Uploads, file \in UploadedFiles : Post(u, file)
  \/ \E u \in Uploads, entry \in ServerEntries : OnEntry(u, entry, MaxParsed)
  \/ \E u \in Uploads : WriteOpen(u)
  \/ \E u \in Uploads : OnClose(u)
  \/ \E u \in Uploads : OnError(u)
  \/ GetRecent
  \/ Sweep
  \/ SweepFailing
  \/ \E d \in {1, MAX_AGE_MS} : Tick(d)

SpecSweep == Init /\ [][NextSweep]_vars

\* ================================================================ claims
\* express.static under /play: a URL is served when its file exists under UPLOAD_DIR
Served(f, url) == Len(url) >= 2 /\ url[1] = <<"play">> /\ IsFile(f, UPLOAD_DIR \o SubSeq(url, 2, Len(url)))
\* a file named index.html, in any case, somewhere beneath an upload's root
HasIndexFile(f, u) ==
  \E p \in DOMAIN f : StrictlyBeneath(p, outDir(u)) /\ f[p] = "File" /\ ToLowerCase(Last(p)) = <<"index.html">>
FilesBeneath(f, u) == {p \in DOMAIN f : StrictlyBeneath(p, outDir(u)) /\ f[p] = "File"}

\* C1: whatever the entries of the archive and their paths, every file or
\* directory the extraction of an upload creates or opens for writing lies
\* strictly beneath that upload's root directory UPLOAD_DIR/<id>, and the disk
\* holds nothing new outside the roots of the uploads.
C1_WritesBeneathRoot ==
  /\ \A u \in Uploads : \A p \in wrote[u] : StrictlyBeneath(p, outDir(u))
  /\ \A p \in DOMAIN fs : p \in {<<>>, SRV, UPLOAD_DIR} \/ \E u \in Uploads : IsPrefix(outDir(u), p)

\* C2: a success response carries playUrl = /play/<id>/<rel>, rel the path from
\* the root to an index.html file (at the root or in a subdirectory), and that
\* file exists when the response is sent.
C2_PlayUrlResolves ==
  [][\A u \in Uploads :
       (resp[u] = NoResp /\ resp'[u].status = 200) =>
         LET url == resp'[u].playUrl
             rel == SubSeq(url, 3, Len(url))
         IN  /\ resp'[u].id = u
             /\ Len(url) >= 3 /\ url[1] = <<"play">> /\ url[2] = <<u>>
             /\ IsFile(fs', outDir(u) \o rel)
             /\ ToLowerCase(Last(rel)) = <<"index.html">>
             /\ Served(fs', url)]_vars

\* a success whose index.html is only in a subdirectory
C2_Witness ==
  /\ resp["u1"].status = 200
  /\ Len(resp["u1"].playUrl) = 4
  /\ ~Exists(fs, Append(outDir("u1"), <<"index.html">>))
  /\ Served(fs, resp["u1"].playUrl)

\* C3: when the archive stream emits an error the upload fails and, once the
\* response is sent, no directory of that upload remains under the upload root.
C3_NoResidueAfterBadArchive ==
  \A u \in Uploads : resp[u].error = MsgStream => (resp[u].status >= 400 /\ ~Exists(fs, outDir(u)))

\* C4: when the archive is read to its end and the extracted tree holds no file
\* named index.html, the answer is 400 with the NoEntryDocument message and the
\* upload's directory is removed; it stays removed once that answer is sent.
C4_NoEntryDocument ==
  /\ [](\A u \in Uploads : resp[u].error = MsgNoIndex =>
          /\ resp[u] = ErrorJson(400, MsgNoIndex)
          /\ ~IsDir(fs, outDir(u))
          /\ \A p \in DOMAIN fs : ~StrictlyBeneath(p, outDir(u)))
  /\ [][\A u \in Uploads :
          (OnClose(u) /\ IsDir(fs, outDir(u)) /\ ~HasIndexFile(fs, u)) =>
            /\ resp'[u] = ErrorJson(400, MsgNoIndex)
            /\ \A p \in DOMAIN fs' : ~IsPrefix(outDir(u), p)]_vars

\* an archive with entries but no index.html was answered and its directory is gone
C4_Witness ==
  /\ resp["u1"] = ErrorJson(400, MsgNoIndex)
  /\ nread["u1"] - rejected["u1"] >= 1
  /\ wrote["u1"] # {}
  /\ ~Exists(fs, outDir("u1"))

\* C5: an entry the path check rejects is drained and skipped: the step that
\* handles it changes nothing but the count of entries read (the disk, the
\* pending writes, the request's position and response are those of the archive
\* without that entry), so the entries before and after it are extracted as if
\* it were absent.
C5_RejectedEntrySkipped ==
  [][\A u \in Uploads :
       rejected'[u] # rejected[u] =>
         /\ pc'[u] = "extracting"
         /\ UNCHANGED <<fs, mtime, now, pc, pending, resp, created, thrown, wrote, crashed>>]_vars

\* a rejected entry between two accepted files: both files are on disk and the
\* upload succeeded
C5_Witness ==
  /\ rejected["u1"] = 1 /\ nread["u1"] = 3
  /\ Cardinality(FilesBeneath(fs, "u1")) = 2
  /\ resp["u1"].status = 200

\* the upload a name under UPLOAD_DIR belongs to
IsPublished(id) == \E u \in Uploads : id = <<u>> /\ resp[u].status = 200
CreatedAt(id) == created[CHOOSE u \in Uploads : id = <<u>>]

C7_OnlyPublishedListed ==
  \A k \in 1..Len(recent) : IsPublished(recent[k].id)

\* C8: GET /recent returns at most 50 entries and lists published uploads
\* newest-first by creation time: of two published uploads it lists, the one
\* created later comes first.
C8_NewestFirstByCreation ==
  /\ Len(recent) <= RECENT_LIMIT
  /\ \A i, j \in 1..Len(recent) :
       (IsPublished(recent[i].id) /\ IsPublished(recent[j].id)
          /\ CreatedAt(recent[i].id) > CreatedAt(recent[j].id)) => i < j

\* C9: a failed POST /upload is answered with a JSON error object, with status
\* 400 for a corrupt archive, a missing index.html or a non-archive file, and
\* with status 500 only for a storage failure.
C9_StatusByCause ==
  \A u \in Uploads :
    (resp[u] # NoResp /\ resp[u].status # 200) =>
      /\ resp[u].json
      /\ resp[u].error \in {MsgStream, MsgNoIndex, MsgOnlyZip} => resp[u].status = 400
      /\ resp[u].status = 500 => resp[u].error = MsgScandir

\* C10: a disk failure while an entry is extracted (mkdirSync or the write
\* stream failing) does not escape the handler and does not leave the request
\* hanging; the request is answered with status 500 after the upload's root
\* directory was removed.
C10_DiskFailureAnswered ==
  \A u \in Uploads :
    thrown[u] # "none" =>
      /\ ~crashed
      /\ pc[u] # "hung"
      /\ pc[u] = "done" => (resp[u].status = 500 /\ ~Exists(fs, outDir(u)))
\* C11: a failure of stat or of the removal on one candidate does not end the
\* sweep: every other directory the sweep enumerated that is expired is removed
\* in the same run of the timer callback.
C11_SweepContinuesPastFailure ==
  [][\A names \in Perms(Children(fs, UPLOAD_DIR)) :
       \A failing \in SUBSET Children(fs, UPLOAD_DIR) :
         SweepFailingOn(names, failing) =>
           \A p \in Children(fs, UPLOAD_DIR) \ failing :
             Expired(mtime, p, now) => ~Exists(fs', p)]_vars

\* the messages server.js itself defines for a failed upload (lines 33, 52, 109, 126)
AppMessages == {MsgNoFile, MsgNoIndex, MsgOnlyZip, "Upload failed"}

\* C12: the error message of a failed POST /upload is one of the fixed messages
\* of the application; it never carries the text of a caught exception or a
\* path of the file system.
C12_FixedErrorMessages ==
  \A u \in Uploads : (resp[u] # NoResp /\ resp[u].status # 200) => resp[u].error \in AppMessages

HasParentSegment(s) == \E i \in 1..Len(Split(s)) : Split(s)[i] = <<".", ".">>
IsEmptyPath(s) == \A i \in 1..Len(Split(s)) : Split(s)[i] \in {<<>>, <<".">>}
MustReject(path) ==
  \/ IsAbsolute(ReplaceBackslash(path))
  \/ HasParentSegment(ReplaceBackslash(path))
  \/ IsEmptyPath(ReplaceBackslash(path))

\* C14: the entry handler rejects (drains and skips) an entry exactly when its
\* path, after "\" is turned into "/" and "." segments are collapsed, is
\* absolute, has a segment that is exactly "..", or is empty; a ".." inside a
\* longer segment name is accepted and an empty or "."-only path is rejected.
C14_PathCheck ==
  [][\A entry \in PathEntries :
       OnEntry("u1", entry, MaxEntries) =>
         (rejected'["u1"] # rejected["u1"] <=> MustReject(entry.path))]_vars

\* C15: the search for the entry document is deterministic: for one extracted
\* tree walk has one possible result (the first match of the depth-first
\* traversal in a fixed order of the names), whatever the order in which the
\* entries of a directory are enumerated.
C15_WalkDeterministic ==
  \A u \in Uploads : IsDir(fs, outDir(u)) => Cardinality(walk(fs, outDir(u))) = 1

\* the files beneath an upload's root whose name is index.html in some case
IndexNames == { <<"index.html">>, <<"INDEX.HTML">> }
IndexFiles(f, u) ==
  {p \in DOMAIN f : StrictlyBeneath(p, outDir(u)) /\ f[p] = "File" /\ Last(p) \in IndexNames}

\* C16: walk returns a match exactly when the tree holds, at some depth, a file
\* whose name is index.html compared without case; what it returns is such a
\* file, never a directory of that name (which is still searched), and without
\* such a file it returns null: the upload succeeds exactly in the first case.
C16_WalkFindsIndexFile ==
  /\ [](\A u \in Uploads : IsDir(fs, outDir(u)) =>
          /\ walk(fs, outDir(u)) \ {null} \subseteq IndexFiles(fs, u)
          /\ IndexFiles(fs, u) # {} => null \notin walk(fs, outDir(u))
          /\ IndexFiles(fs, u) = {} => walk(fs, outDir(u)) = {null})
  /\ [][\A u \in Uploads :
          (OnClose(u) /\ IsDir(fs, outDir(u))) =>
            /\ resp'[u].status = 200 <=> IndexFiles(fs, u) # {}
            /\ resp'[u].status # 200 => resp'[u] = ErrorJson(400, MsgNoIndex)
            /\ resp'[u].status = 200 =>
                 outDir(u) \o SubSeq(resp'[u].playUrl, 3, Len(resp'[u].playUrl)) \in IndexFiles(fs, u)]_vars

\* the only index file lies in a directory that is itself named index.html,
\* under an upper-case name, and the search returned it
C16_Witness ==
  /\ IsDir(fs, Append(outDir("u1"), <<"index.html">>))
  /\ IndexFiles(fs, "u1") = { outDir("u1") \o << <<"index.html">>, <<"INDEX.HTML">> >> }
  /\ resp["u1"].status = 200
  /\ resp["u1"].playUrl = << <<"play">>, <<"u1">>, <<"index.html">>, <<"INDEX.HTML">> >>

\* C17: for every entry of kind Directory that the path check accepts, the
\* directory it names exists under the upload's root once the entry has been
\* handled (and so when the extraction completes), also when no file of the
\* archive lies beneath it.
C17_DirectoryEntriesMade ==
  [][\A entry \in ArchiveEntries :
       (/\ OnEntry("u1", entry, MaxEntries)
        /\ entry.type = "Directory"
        /\ rejected'["u1"] = rejected["u1"]
        /\ thrown'["u1"] = thrown["u1"]) =>
         IsDir(fs', Join(outDir("u1"), ReplaceBackslash(entry.path)).segs)]_vars

\* C18: the extraction is complete before the search starts: when 'close'
\* resolves the extraction and walk(outDir) runs, and so when a success is
\* answered, no write stream of an accepted File entry is still waiting to
\* create its file.
C18_ExtractionCompleteAtClose ==
  [][\A u \in Uploads : OnClose(u) => pending[u] = {}]_vars

\* C19: for every published upload GET /recent lists, the url of the item is
\* the playUrl POST /upload answered for that id, and it resolves to an
\* existing file, also when the entry document is not at the root.
C19_RecentUrlIsPlayUrl ==
  \A k \in 1..Len(recent) : \A u \in Uploads :
    (recent[k].id = <<u>> /\ resp[u].status = 200) =>
      /\ recent[k].url = resp[u].playUrl
      /\ Served(fs, recent[k].url)

\* C20: whatever the interleaving of the cleanup timer with the uploads, the
\* root directory of an upload exists while its request is still extracting,
\* and while it is published and was created no longer ago than MAX_AGE_MS.
C20_SweepSparesLiveUploads ==
  \A u \in Uploads :
    (\/ pc[u] = "extracting"
     \/ (resp[u].status = 200 /\ now - created[u] <= MAX_AGE_MS)) =>
      IsDir(fs, outDir(u))
====
